---- MODULE Spec2Model ----
(***************************************************************************)
(* Model of the yt-api-wrapper clients:                                    *)
(*   - YouTubeAPIWrapper       (src/youtube-core/youtube.py, "sync")       *)
(*   - AsyncYouTubeAPIWrapper  (src/yt_api_wrapper/async_yt_api_wrapper.py,*)
(*                              "async")                                   *)
(* Text is modelled as a sequence of one-character strings (validation) or *)
(* of lexical tokens (response bodies).                                    *)
(***************************************************************************)
EXTENDS Integers, Sequences, FiniteSets, TLC

VARIABLES
    client,          \* which client class the current call runs on
    op,              \* the public operation (or pure function) being run
    max_retries,     \* self.max_retries
    retry_delay,     \* self.retry_delay
    pc,              \* position of the current call
    arg,             \* the call's argument (query / video_id / response text)
    attempt,         \* the loop variable of _make_request
    history,         \* what each HTTP attempt of the current call produced
    waits,           \* the sleeps of the current call, in order
    response,        \* the response object of the last attempt
    last_exception,  \* the local last_exception of _make_request
    outcome,         \* how the current call ended: returned / raised object
    mr_outcome,      \* how _make_request ended: returned / raised object
    desc,            \* the description the response text was rendered from
    session,         \* self._session (0 = None, else a session identity)
    closedSessions,  \* identities of the sessions whose .closed is True
    max_results,     \* the max_results argument of search_videos
    scope,           \* "in" while the caller is inside "async with client"
    entered,         \* what __aenter__ returned to the caller
    lifecycle,       \* the last lifecycle operation the caller completed
    tasks,           \* the concurrent tasks that share one async client
    finalClosed      \* the close that follows the end of all tasks is done

\* the state of the single-caller request machine
core == <<client, op, max_retries, retry_delay, pc, arg, attempt, history,
          waits, response, last_exception, outcome, mr_outcome, desc>>

\* the state added by search, the scoped block and the concurrent tasks
ext == <<max_results, scope, entered, lifecycle, tasks, finalClosed>>

vars == <<client, op, max_retries, retry_delay, pc, arg, attempt, history,
          waits, response, last_exception, outcome, mr_outcome, desc,
          session, closedSessions, max_results, scope, entered, lifecycle,
          tasks, finalClosed>>

-----------------------------------------------------------------------------
(* Bounds of the exploration *)

MaxRetriesBound == 3
MaxDelay == 2
MaxSessions == 2
MaxPad == 1
MaxRows == 3
MaxResultsBound == 4
MaxTasks == 3
MaxTaskRetries == 1

(* Program constants *)

MaxQueryLen == 200
VideoIdLen == 11
DetailsLimit == 200
ParseDetailsLimit == 100
StatusOK == 200
DefaultMaxResults == 10

-----------------------------------------------------------------------------
(* Generic helpers *)

Min(a, b) == IF a < b THEN a ELSE b

Max(a, b) == IF a > b THEN a ELSE b

\* Python s[:n]
Take(s, n) == SubSeq(s, 1, Min(n, Len(s)))

\* n copies of c
Rep(c, n) == [i \in 1..n |-> c]

Pow2(n) == 2 ^ n

-----------------------------------------------------------------------------
(* Objects and outcomes.  Every object has the same shape so that objects  *)
(* of different classes can be told apart by their type field.             *)

NoDetails == <<"None">>

NoneObj == [type |-> "None", error_type |-> "", details |-> NoDetails, value |-> <<>>]

YouTubeError(et, d) ==
    [type |-> "YouTubeError", error_type |-> et, details |-> d, value |-> <<>>]

ExceptionObj(t, msg) ==
    [type |-> t, error_type |-> "", details |-> msg, value |-> <<>>]

ListObj(v) == [type |-> "list", error_type |-> "", details |-> NoDetails, value |-> v]

\* str(e) of an exception object
StrOf(e) == IF e.type = "YouTubeError" THEN <<e.type, e.error_type>> \o e.details
            ELSE e.details

NoOutcome == [how |-> "none", obj |-> NoneObj]
Return(o) == [how |-> "return", obj |-> o]

\* The sync module declares YouTubeError as a plain dataclass; the async
\* package declares it as a dataclass deriving from Exception.
YouTubeErrorIsException(cl) == cl = "async"

\* Python's raise statement: raising an object whose class does not derive
\* from BaseException raises TypeError instead.
Raise(cl, e) ==
    IF e.type = "YouTubeError" /\ ~YouTubeErrorIsException(cl)
    THEN [how |-> "raise",
          obj |-> ExceptionObj("TypeError", <<"exceptions must derive from BaseException">>)]
    ELSE [how |-> "raise", obj |-> e]

\* The handlers that close every public operation:
\*     except YouTubeError: raise
\*     except Exception as e: return YouTubeError("UNEXPECTED_ERROR", ..., str(e))
\* Matching an exception against a class that is not an exception class
\* raises TypeError out of the try statement.
BadExceptClauseOutcome ==
    [how |-> "raise",
     obj |-> ExceptionObj("TypeError",
               <<"catching classes that do not inherit from BaseException is not allowed">>)]

Handlers(cl, out) ==
    IF out.how # "raise" THEN out
    ELSE IF ~YouTubeErrorIsException(cl)
         THEN BadExceptClauseOutcome
    ELSE IF out.obj.type = "YouTubeError" THEN out
    ELSE Return(YouTubeError("UNEXPECTED_ERROR", StrOf(out.obj)))

-----------------------------------------------------------------------------
(* Character strings and input validation *)

Whitespace == {" ", "\t", "\n"}

Lower == {"a","b","c","d","e","f","g","h","i","j","k","l","m",
          "n","o","p","q","r","s","t","u","v","w","x","y","z"}
Upper == {"A","B","C","D","E","F","G","H","I","J","K","L","M",
          "N","O","P","Q","R","S","T","U","V","W","X","Y","Z"}
Digits == {"0","1","2","3","4","5","6","7","8","9"}
VideoIdChars == Lower \cup Upper \cup Digits \cup {"_", "-"}

\* str.strip()
RECURSIVE LStrip(_)
LStrip(s) == IF s # <<>> /\ Head(s) \in Whitespace THEN LStrip(Tail(s)) ELSE s

RECURSIVE RStrip(_)
RStrip(s) == IF s # <<>> /\ s[Len(s)] \in Whitespace
             THEN RStrip(SubSeq(s, 1, Len(s) - 1)) ELSE s

Strip(s) == RStrip(LStrip(s))

\* YouTubeAPIWrapper._validate_query
validate_query(cl, query) ==
    IF query = <<>> \/ Strip(query) = <<>>
    THEN Raise(cl, YouTubeError("INVALID_INPUT", NoDetails))
    ELSE IF Len(query) > MaxQueryLen
    THEN Raise(cl, YouTubeError("INVALID_INPUT", NoDetails))
    ELSE Return(NoneObj)

\* re.match(r'^[a-zA-Z0-9_-]{11}$', s): '$' also matches before one trailing newline
VideoIdPatternMatches(s) ==
    /\ Len(s) >= VideoIdLen
    /\ \A i \in 1..VideoIdLen : s[i] \in VideoIdChars
    /\ \/ Len(s) = VideoIdLen
       \/ Len(s) = VideoIdLen + 1 /\ s[VideoIdLen + 1] = "\n"

\* YouTubeAPIWrapper._validate_video_id
validate_video_id(cl, video_id) ==
    IF video_id = <<>> \/ Strip(video_id) = <<>>
    THEN Raise(cl, YouTubeError("INVALID_INPUT", NoDetails))
    ELSE IF ~VideoIdPatternMatches(Strip(video_id))
    THEN Raise(cl, YouTubeError("INVALID_INPUT", NoDetails))
    ELSE Return(NoneObj)

-----------------------------------------------------------------------------
(* Response text as a sequence of lexical tokens.  A Python value is        *)
(* represented by its canonical token sequence: a list is [ e1 , e2 ], a    *)
(* tuple is ( e1 , e2 ) and the one-element tuple is ( e1 , ).              *)

\* str.find / str.rfind for a one-token needle, 0-indexed, -1 if absent
Find(s, tok) ==
    IF \E i \in 1..Len(s) : s[i] = tok
    THEN (CHOOSE i \in 1..Len(s) : s[i] = tok /\ \A j \in 1..(i - 1) : s[j] # tok) - 1
    ELSE -1

RFind(s, tok) ==
    IF \E i \in 1..Len(s) : s[i] = tok
    THEN (CHOOSE i \in 1..Len(s) : s[i] = tok /\ \A j \in (i + 1)..Len(s) : s[j] # tok) - 1
    ELSE -1

\* s[a:b] for 0 <= a and 0 <= b
PySlice(s, a, b) == SubSeq(s, a + 1, Min(b, Len(s)))

\* str.startswith
StartsWith(s, prefix) ==
    Len(s) >= Len(prefix) /\ SubSeq(s, 1, Len(prefix)) = prefix

\* 'window.google.ac.h(' character by character
JsonpPrefix == <<"w","i","n","d","o","w",".","g","o","o","g","l","e",".","a","c",".","h","(">>

\* The atoms ast.literal_eval accepts among the tokens used here: string and
\* number literals and the Python constants.  Any other token in expression
\* position (null, true, a stray character) makes literal_eval raise.
PyStrTokens == {"\"q\"", "\"alpha\"", "\"beta\"", "\"gamma\"", "\"x\""}
PyNumTokens == {"0", "512"}
PyAtoms == PyStrTokens \cup PyNumTokens \cup {"None", "True", "False"}

RECURSIVE Join(_)
Join(vals) ==
    IF vals = <<>> THEN <<>>
    ELSE IF Len(vals) = 1 THEN vals[1]
    ELSE vals[1] \o <<",">> \o Join(Tail(vals))

MakeList(vals) == <<"[">> \o Join(vals) \o <<"]">>
MakeTuple(vals) ==
    IF Len(vals) = 1 THEN <<"(">> \o vals[1] \o <<",", ")">>
    ELSE <<"(">> \o Join(vals) \o <<")">>

PyFail == [ok |-> FALSE, next |-> 0, val |-> <<>>, vals |-> <<>>, comma |-> FALSE]

RECURSIVE PyExpr(_, _), PyItems(_, _, _, _, _)

\* items separated by commas, an optional trailing comma, up to the token close
PyItems(s, i, close, vals, comma) ==
    IF i > Len(s) THEN PyFail
    ELSE IF s[i] = close
    THEN [ok |-> TRUE, next |-> i + 1, val |-> <<>>, vals |-> vals, comma |-> comma]
    ELSE LET e == PyExpr(s, i) IN
         IF ~e.ok \/ e.next > Len(s) THEN PyFail
         ELSE IF s[e.next] = ","
         THEN PyItems(s, e.next + 1, close, Append(vals, e.val), TRUE)
         ELSE IF s[e.next] = close
         THEN [ok |-> TRUE, next |-> e.next + 1, val |-> <<>>,
               vals |-> Append(vals, e.val), comma |-> FALSE]
         ELSE PyFail

\* one expression starting at position i
PyExpr(s, i) ==
    IF i > Len(s) THEN PyFail
    ELSE IF s[i] \in PyAtoms
    THEN [ok |-> TRUE, next |-> i + 1, val |-> <<s[i]>>, vals |-> <<>>, comma |-> FALSE]
    ELSE IF s[i] = "["
    THEN LET r == PyItems(s, i + 1, "]", <<>>, FALSE) IN
         IF r.ok THEN [r EXCEPT !.val = MakeList(r.vals)] ELSE PyFail
    ELSE IF s[i] = "("
    THEN LET r == PyItems(s, i + 1, ")", <<>>, FALSE) IN
         IF ~r.ok THEN PyFail
         ELSE IF Len(r.vals) = 1 /\ ~r.comma THEN [r EXCEPT !.val = r.vals[1]]
         ELSE [r EXCEPT !.val = MakeTuple(r.vals)]
    ELSE PyFail

EndOfInput == "<EOF>"

\* ast.literal_eval(json_str): ok = FALSE stands for SyntaxError / ValueError
literal_eval(s) ==
    LET r == PyItems(Append(s, EndOfInput), 1, EndOfInput, <<>>, FALSE) IN
    IF ~r.ok \/ r.vals = <<>> THEN PyFail
    ELSE IF Len(r.vals) = 1 /\ ~r.comma THEN [r EXCEPT !.val = r.vals[1]]
    ELSE [r EXCEPT !.val = MakeTuple(r.vals)]

\* isinstance(v, list)
IsList(v) == v # <<>> /\ v[1] = "["
IsTuple(v) == v # <<>> /\ v[1] = "("

\* the elements of a list or tuple value
Elements(v) ==
    IF IsList(v) THEN PyItems(v, 2, "]", <<>>, FALSE).vals
    ELSE IF IsTuple(v) THEN PyItems(v, 2, ")", <<>>, FALSE).vals
    ELSE <<>>

\* mutant: the loop takes the first element of tuples too
RECURSIVE SuggestionsAnySequence(_)
SuggestionsAnySequence(items) ==
    IF items = <<>> THEN <<>>
    ELSE LET item == Head(items) IN
         IF (IsList(item) \/ IsTuple(item)) /\ Len(Elements(item)) > 0
         THEN <<Elements(item)[1]>> \o SuggestionsAnySequence(Tail(items))
         ELSE SuggestionsAnySequence(Tail(items))

\* the loop "for item in data[1]: if isinstance(item, list) and len(item) > 0:
\*           suggestions.append(item[0])"
RECURSIVE Suggestions(_)
Suggestions(items) ==
    IF items = <<>> THEN <<>>
    ELSE LET item == Head(items) IN
         IF IsList(item) /\ Len(Elements(item)) > 0
         THEN <<Elements(item)[1]>> \o Suggestions(Tail(items))
         ELSE Suggestions(Tail(items))

\* "if len(data) < 2 or not isinstance(data[1], list): return []"
NoSuggestionList(data) ==
    Len(Elements(data)) < 2 \/ ~IsList(Elements(data)[2])

\* auto_complete after the request: from response.text to the result.
\* The span always starts with [ and ends with ], so a value that parses is
\* a list or a tuple.
ParseAutoComplete(cl, response_text) ==
    IF ~StartsWith(response_text, JsonpPrefix)
    THEN Raise(cl, YouTubeError("PARSE_ERROR", Take(response_text, ParseDetailsLimit)))
    ELSE LET json_start == Find(response_text, "[")
             json_end == RFind(response_text, "]") + 1
         IN IF json_start = -1 \/ json_end = 0
            THEN Raise(cl, YouTubeError("PARSE_ERROR", NoDetails))
            ELSE LET data == literal_eval(PySlice(response_text, json_start, json_end)) IN
                 IF ~data.ok
                 THEN Raise(cl, YouTubeError("PARSE_ERROR", <<"SyntaxError or ValueError">>))
                 ELSE IF NoSuggestionList(data.val)
                 THEN Return(ListObj(<<>>))
                 ELSE Return(ListObj(Suggestions(Elements(Elements(data.val)[2]))))

-----------------------------------------------------------------------------
(* The watch page: extraction of the embedded player response, JSON         *)
(* decoding and the video-info builder.  A JSON value is represented by its *)
(* token sequence without whitespace tokens.                                *)

PlayerResponseName == "ytInitialPlayerResponse"

RECURSIVE SkipWs(_, _)
SkipWs(s, p) == IF p <= Len(s) /\ s[p] \in Whitespace THEN SkipWs(s, p + 1) ELSE p

\* position of the opening brace when pattern number pat matches the text
\* before the capture group at start position i, else 0
\*   1: ytInitialPlayerResponse\s*=\s*({      2: ytInitialPlayerResponse":\s*({
BraceAt(s, i, pat) ==
    IF pat = 1
    THEN LET p1 == SkipWs(s, i + 1) IN
         IF p1 <= Len(s) /\ s[p1] = "="
         THEN LET p2 == SkipWs(s, p1 + 1) IN
              IF p2 <= Len(s) /\ s[p2] = "{" THEN p2 ELSE 0
         ELSE 0
    ELSE IF i + 1 <= Len(s) /\ s[i + 1] = "\":"
         THEN LET p2 == SkipWs(s, i + 2) IN
              IF p2 <= Len(s) /\ s[p2] = "{" THEN p2 ELSE 0
         ELSE 0

PatternTerminator(pat) == IF pat = 1 THEN ";" ELSE ","

\* the ends the lazy group {.+?} can take: a closing brace after at least one
\* token, directly followed by the terminator
CloseCandidates(s, b, pat) ==
    {j \in (b + 2)..(Len(s) - 1) : s[j] = "}" /\ s[j + 1] = PatternTerminator(pat)}

MatchesAt(s, i, pat) ==
    /\ s[i] = PlayerResponseName
    /\ BraceAt(s, i, pat) # 0
    /\ CloseCandidates(s, BraceAt(s, i, pat), pat) # {}

SetMin(S) == CHOOSE x \in S : \A y \in S : x <= y

\* re.search(pattern, html_content, re.DOTALL): leftmost start, shortest group
RegexSearch(s, pat) ==
    LET starts == {i \in 1..Len(s) : MatchesAt(s, i, pat)} IN
    IF starts = {} THEN [found |-> FALSE, text |-> <<>>]
    ELSE LET b == BraceAt(s, SetMin(starts), pat) IN
         [found |-> TRUE, text |-> SubSeq(s, b, SetMin(CloseCandidates(s, b, pat)))]

\* mutant: the second pattern is never tried
extract_first_pattern_only(html_content) == RegexSearch(html_content, 1)

\* _extract_player_response: the first pattern that matches wins
extract_player_response(html_content) ==
    IF RegexSearch(html_content, 1).found THEN RegexSearch(html_content, 1)
    ELSE RegexSearch(html_content, 2)

JsonKeyTokens ==
    {"\"videoDetails\"", "\"microformat\"", "\"playerMicroformatRenderer\"",
     "\"videoId\"", "\"title\"", "\"shortDescription\"", "\"author\"",
     "\"channelId\"", "\"lengthSeconds\"", "\"viewCount\"", "\"keywords\"",
     "\"thumbnail\"", "\"thumbnails\"", "\"url\"", "\"uploadDate\"",
     "\"category\"", "\"playabilityStatus\""}
NumericStrTokens == {"\"42\"", "\"100\""}
JsonStrTokens ==
    JsonKeyTokens \cup NumericStrTokens \cup
    {"\"abc12345678\"", "\"T\"", "\"D\"", "\"A\"", "\"UC1\"", "\"many\"", "\"k1\"",
     "\"u1\"", "\"u2\"", "\"u3\"", "\"2020-01-01\"", "\"Music\"", "\"ERROR\"", "\"\""}
JsonNumTokens == {"0", "42", "100"}
JsonAtoms == JsonStrTokens \cup JsonNumTokens \cup {"true", "false", "null"}

\* int(value) for the numeric strings
IntOfStr(tok) == IF tok = "\"42\"" THEN "42" ELSE "100"

JsonFail == [ok |-> FALSE, next |-> 0, val |-> <<>>, keys |-> <<>>, vals |-> <<>>]

RECURSIVE JsonValue(_, _), JsonMembers(_, _, _, _), JsonElems(_, _, _)

\* "key": value pairs separated by commas up to the closing brace
JsonMembers(s, i, keys, vals) ==
    IF i + 1 > Len(s) \/ s[i] \notin JsonStrTokens \/ s[i + 1] # ":" THEN JsonFail
    ELSE LET v == JsonValue(s, i + 2) IN
         IF ~v.ok \/ v.next > Len(s) THEN JsonFail
         ELSE IF s[v.next] = ","
         THEN JsonMembers(s, v.next + 1, Append(keys, s[i]), Append(vals, v.val))
         ELSE IF s[v.next] = "}"
         THEN [ok |-> TRUE, next |-> v.next + 1, val |-> SubSeq(s, 1, v.next),
               keys |-> Append(keys, s[i]), vals |-> Append(vals, v.val)]
         ELSE JsonFail

\* values separated by commas up to the closing bracket
JsonElems(s, i, vals) ==
    LET v == JsonValue(s, i) IN
    IF ~v.ok \/ v.next > Len(s) THEN JsonFail
    ELSE IF s[v.next] = "," THEN JsonElems(s, v.next + 1, Append(vals, v.val))
    ELSE IF s[v.next] = "]"
    THEN [ok |-> TRUE, next |-> v.next + 1, val |-> <<>>, keys |-> <<>>,
          vals |-> Append(vals, v.val)]
    ELSE JsonFail

JsonValue(s, i) ==
    IF i > Len(s) THEN JsonFail
    ELSE IF s[i] \in JsonAtoms
    THEN [ok |-> TRUE, next |-> i + 1, val |-> <<s[i]>>, keys |-> <<>>, vals |-> <<>>]
    ELSE IF s[i] = "{"
    THEN IF i + 1 <= Len(s) /\ s[i + 1] = "}"
         THEN [ok |-> TRUE, next |-> i + 2, val |-> <<"{", "}">>, keys |-> <<>>, vals |-> <<>>]
         ELSE LET r == JsonMembers(s, i + 1, <<>>, <<>>) IN
              IF r.ok THEN [r EXCEPT !.val = SubSeq(s, i, r.next - 1)] ELSE JsonFail
    ELSE IF s[i] = "["
    THEN IF i + 1 <= Len(s) /\ s[i + 1] = "]"
         THEN [ok |-> TRUE, next |-> i + 2, val |-> <<"[", "]">>, keys |-> <<>>, vals |-> <<>>]
         ELSE LET r == JsonElems(s, i + 1, <<>>) IN
              IF r.ok THEN [r EXCEPT !.val = SubSeq(s, i, r.next - 1)] ELSE JsonFail
    ELSE JsonFail

\* json.loads(text): ok = FALSE stands for json.JSONDecodeError
json_loads(text) ==
    LET s == SelectSeq(text, LAMBDA t : t \notin Whitespace)
        r == JsonValue(s, 1)
    IN IF r.ok /\ r.next = Len(s) + 1 THEN r ELSE JsonFail

IsDict(v) == v # <<>> /\ v[1] = "{"
IsJsonList(v) == v # <<>> /\ v[1] = "["

\* the value None: an absent key read with .get, or JSON null
PyNone == <<"null">>

\* dict.get(key) on a decoded object; a repeated key keeps its last value
DictGet(v, key) ==
    LET r == JsonValue(v, 1)
        hits == {k \in 1..Len(r.keys) : r.keys[k] = key}
    IN IF hits = {} THEN PyNone
       ELSE r.vals[CHOOSE k \in hits : \A m \in hits : m <= k]

DictHas(v, key) == \E k \in 1..Len(JsonValue(v, 1).keys) : JsonValue(v, 1).keys[k] = key

\* "not x" for a decoded value
Falsy(v) == v \in {PyNone, <<"false">>, <<"0">>, <<"\"\"">>, <<"{", "}">>, <<"[", "]">>}

-----------------------------------------------------------------------------
(* The video-info builder and the typed record *)

DictObj(d) == [type |-> "dict", error_type |-> "", details |-> NoDetails, value |-> d]
VideoObj(d) ==
    [type |-> "YouTubeVideoBuilder", error_type |-> "", details |-> NoDetails, value |-> d]

\* video_fields and microformat_fields of _build_video_info_dict
VideoFields ==
    [video_id |-> "\"videoId\"", title |-> "\"title\"",
     description |-> "\"shortDescription\"", author |-> "\"author\"",
     channel_id |-> "\"channelId\"", length_seconds |-> "\"lengthSeconds\"",
     view_count |-> "\"viewCount\"", keywords |-> "\"keywords\"",
     thumbnail |-> "\"thumbnail\""]
MicroformatFields == [upload_date |-> "\"uploadDate\"", category |-> "\"category\""]

\* the fields of the dataclass YouTubeVideoBuilder, none of which has a default
BuilderFields ==
    {"video_id", "title", "description", "author", "channel_id", "length_seconds",
     "view_count", "keywords", "upload_date", "category", "thumbnail_url"}

\* dict.get(key, default)
DictGetDefault(v, key, default) == IF DictHas(v, key) THEN DictGet(v, key) ELSE default

EmptyDict == <<"{", "}">>
EmptyList == <<"[", "]">>

\* numeric strings of length_seconds and view_count become integers; a
\* string int() rejects is kept as it is
Coerce(result_key, value) ==
    IF result_key \in {"length_seconds", "view_count"}
       /\ Len(value) = 1 /\ value[1] \in NumericStrTokens
    THEN <<IntOfStr(value[1])>>
    ELSE value

AttributeError == ExceptionObj("AttributeError", <<"object has no attribute 'get'">>)

BuildFail(e) == [ok |-> FALSE, dict |-> <<>>, exc |-> e]
BuildOk(d) == [ok |-> TRUE, dict |-> d, exc |-> NoneObj]

\* the two field loops
FieldLoops(video_details, microformat) ==
    LET vk == {k \in DOMAIN VideoFields : DictGet(video_details, VideoFields[k]) # PyNone}
        mk == {k \in DOMAIN MicroformatFields :
                   DictGet(microformat, MicroformatFields[k]) # PyNone}
    IN [k \in vk \cup mk |->
            IF k \in vk THEN Coerce(k, DictGet(video_details, VideoFields[k]))
            ELSE DictGet(microformat, MicroformatFields[k])]

Without(d, key) == [k \in DOMAIN d \ {key} |-> d[k]]
With(d, key, v) == [k \in DOMAIN d \cup {key} |-> IF k = key THEN v ELSE d[k]]

\* the thumbnail block at the end of _build_video_info_dict
ThumbnailStep(result) ==
    IF "thumbnail" \in DOMAIN result /\ IsDict(result["thumbnail"])
    THEN LET thumbnails == DictGetDefault(result["thumbnail"], "\"thumbnails\"", EmptyList) IN
         IF Falsy(thumbnails) THEN BuildOk(Without(result, "thumbnail"))
         ELSE IF ~IsJsonList(thumbnails) THEN BuildFail(AttributeError)
         ELSE LET elems == JsonValue(thumbnails, 1).vals
                  last == elems[Len(elems)]
              IN IF ~IsDict(last) THEN BuildFail(AttributeError)
                 ELSE BuildOk(Without(
                        With(result, "thumbnail_url", DictGetDefault(last, "\"url\"", <<"\"\"">>)),
                        "thumbnail"))
    ELSE BuildOk(result)

\* YouTubeAPIWrapper._build_video_info_dict
build_video_info_dict(video_details, microformat) ==
    IF ~IsDict(video_details) \/ ~IsDict(microformat) THEN BuildFail(AttributeError)
    ELSE ThumbnailStep(FieldLoops(video_details, microformat))

\* YouTubeVideoBuilder(**result): every field is required and no other
\* keyword is accepted
NewYouTubeVideoBuilder(cl, result) ==
    IF DOMAIN result = BuilderFields THEN Return(VideoObj(result))
    ELSE Raise(cl, ExceptionObj("TypeError", <<"__init__() missing or unexpected keyword argument">>))

\* what get_video_info returns for a built dictionary: the sync client wraps
\* it in the dataclass, the async client returns the dictionary
ReturnVideoInfo(cl, result) ==
    IF cl = "sync" THEN NewYouTubeVideoBuilder(cl, result) ELSE Return(DictObj(result))

\* get_video_info after the request: from response.text to the result
VideoInfoFromPage(cl, html_content) ==
    LET json_data == extract_player_response(html_content) IN
    IF ~json_data.found
    THEN Return(YouTubeError("PARSE_ERROR", NoDetails))
    ELSE LET data == json_loads(json_data.text) IN
    IF ~data.ok
    THEN Return(YouTubeError("PARSE_ERROR", <<"JSONDecodeError">>))
    ELSE LET video_details == DictGet(data.val, "\"videoDetails\"") IN
    IF Falsy(video_details)
    THEN Return(YouTubeError("VIDEO_NOT_FOUND", NoDetails))
    ELSE LET outer == DictGetDefault(data.val, "\"microformat\"", EmptyDict) IN
    IF ~IsDict(outer) THEN Raise(cl, AttributeError)
    ELSE LET microformat == DictGetDefault(outer, "\"playerMicroformatRenderer\"", EmptyDict)
             built == build_video_info_dict(video_details, microformat)
         IN IF ~built.ok THEN Raise(cl, built.exc)
            ELSE ReturnVideoInfo(cl, built.dict)

-----------------------------------------------------------------------------
(* The request loop of _make_request *)

\* "if response.ok" (requests: no 4xx / 5xx status) in the sync client,
\* "if response.status == 200" in the async client
ResponseOk(status) == ~(400 <= status /\ status < 600)
\* mutant: the async client accepts whatever the sync client accepts
IsSuccessAnyOk(cl, status) == ResponseOk(status)

IsSuccess(cl, status) == IF cl = "sync" THEN ResponseOk(status) ELSE status = StatusOK

\* mutant: one retry too many
CanRetryOffByOne(a, mr) == a <= mr

\* "if attempt < self.max_retries"
CanRetry(a, mr) == a < mr

\* mutant: a linear backoff
BackoffLinear(delay, a) == delay * (a + 1)

\* "self.retry_delay * (2 ** attempt)"
Backoff(delay, a) == delay * Pow2(a)

\* "except requests.exceptions.RequestException" in the sync client,
\* "except Exception" in the async client
CaughtInMakeRequest(cl, e) ==
    IF cl = "sync" THEN e.type = "RequestException" ELSE TRUE

\* the exception the transport raises in each client
TransportError(cl) ==
    IF cl = "sync" THEN ExceptionObj("RequestException", <<"connection failed">>)
    ELSE ExceptionObj("ClientError", <<"connection failed">>)

\* "raise YouTubeError(error_type='REQUEST_FAILED', ..., details=str(last_exception))"
RequestFailed(cl, e) == Raise(cl, YouTubeError("REQUEST_FAILED", StrOf(e)))

\* "raise YouTubeError(error_type='HTTP_ERROR', ..., details=response.text[:200])"
HttpError(cl, text) == Raise(cl, YouTubeError("HTTP_ERROR", Take(text, DetailsLimit)))

\* mutant: a closed session is kept
get_session_if_none(s, closed) == IF s = 0 THEN s + 1 ELSE s

\* mutant: every attempt gets a session of its own
get_session_always_new(s, closed) == s + 1

\* _get_session: the session the next attempt runs on
get_session(s, closed) == IF s = 0 \/ s \in closed THEN s + 1 ELSE s

\* the session an attempt runs on: the sync client's own session is created
\* by the constructor and written 0 here
AttemptSession(cl) == IF cl = "sync" THEN 0 ELSE get_session(session, closedSessions)

NoResponse == [status |-> 0, text |-> <<>>]

-----------------------------------------------------------------------------
(* Inputs *)

Clients == {"sync", "async"}
Statuses == {200, 204, 404}

SeqsUpTo(S, n) == UNION {[1..k -> S] : k \in 0..n}

ValidVideoId == <<"a","b","c","1","2","3","4","5","6","7","8">>

\* error bodies: a short one and one longer than the details limit
ErrorBodies == {<<"Not", "Found">>, Rep("x", DetailsLimit + 1)}

(* Autocomplete response texts, rendered from a description of the payload *)

EntryKinds == {"alpha", "beta", "nested", "empty", "string", "tuple"}

EntryTokens(k) ==
    CASE k = "alpha" -> <<"[", "\"alpha\"", ",", "0", "]">>
      [] k = "beta" -> <<"[", "\"beta\"", ",", "0", ",", "[", "512", "]", "]">>
      [] k = "nested" -> <<"[", "[", "\"x\"", "]", "]">>
      [] k = "empty" -> <<"[", "]">>
      [] k = "string" -> <<"\"gamma\"">>
      [] k = "tuple" -> <<"(", "\"alpha\"", ",", "0", ")">>

RECURSIVE RenderEntries(_)
RenderEntries(es) ==
    IF es = <<>> THEN <<>>
    ELSE IF Len(es) = 1 THEN EntryTokens(es[1])
    ELSE EntryTokens(es[1]) \o <<",">> \o RenderEntries(Tail(es))

FormsWithEntries == {"list2", "list3", "top_tuple", "trailing_comma", "second_tuple", "null_entry"}
FormsWithoutEntries == {"short", "empty", "second_str", "unbalanced", "no_bracket"}

MaxEntries == 3

AutoDescs ==
    [form : FormsWithEntries, entries : SeqsUpTo(EntryKinds, MaxEntries), prefix : BOOLEAN]
    \cup [form : FormsWithoutEntries, entries : {<<>>}, prefix : BOOLEAN]

Payload(d) ==
    LET es == RenderEntries(d.entries)
        tc == IF d.entries = <<>> THEN <<>> ELSE <<",">>
    IN CASE d.form = "list2" -> <<"[", "\"q\"", ",", "[">> \o es \o <<"]", "]">>
         [] d.form = "list3" -> <<"[", "\"q\"", ",", "[">> \o es \o <<"]", ",", "\"x\"", "]">>
         [] d.form = "top_tuple" -> <<"[", "\"q\"", "]", ",", "[">> \o es \o <<"]">>
         [] d.form = "trailing_comma" ->
                <<"[", "\"q\"", ",", "[">> \o es \o tc \o <<"]", ",", "]">>
         [] d.form = "second_tuple" -> <<"[", "\"q\"", ",", "(">> \o es \o tc \o <<")", "]">>
         [] d.form = "null_entry" ->
                <<"[", "\"q\"", ",", "[">> \o es \o tc \o <<"null", "]", "]">>
         [] d.form = "short" -> <<"[", "\"q\"", "]">>
         [] d.form = "empty" -> <<"[", "]">>
         [] d.form = "second_str" -> <<"[", "\"q\"", ",", "\"gamma\"", "]">>
         [] d.form = "unbalanced" -> <<"[", "\"q\"", ",", "[", "]">>
         [] d.form = "no_bracket" -> <<"\"q\"">>

RenderAuto(d) ==
    (IF d.prefix THEN JsonpPrefix ELSE <<"h", "(">>) \o Payload(d) \o <<")">>

(* Watch pages, rendered from a description of the embedded player response *)

Embeds == {"none", "assign", "assign_ws", "quoted"}
Omits == {"none", "videoId", "lengthSeconds", "keywords", "thumbnail", "uploadDate", "category"}
Thumbs == {"list3", "empty", "str"}
Micros == {"present", "absent", "null"}
Views == {"\"100\"", "\"many\""}

PageDescs ==
    [embed : Embeds, shape : {"vd"}, omit : Omits, thumb : Thumbs, micro : Micros,
     views : Views]
    \cup [embed : Embeds, shape : {"garbage", "no_vd", "vd_null", "vd_empty"},
          omit : {"none"}, thumb : {"list3"}, micro : {"absent"}, views : {"\"100\""}]

ThumbTokens(t) ==
    CASE t = "list3" -> <<"{", "\"thumbnails\"", ":", "[",
                           "{", "\"url\"", ":", "\"u1\"", "}", ",",
                           "{", "\"url\"", ":", "\"u2\"", "}", ",",
                           "{", "\"url\"", ":", "\"u3\"", "}", "]", "}">>
      [] t = "empty" -> <<"{", "\"thumbnails\"", ":", "[", "]", "}">>
      [] t = "str" -> <<"\"u1\"">>

Member(key, val) == <<key, ":">> \o val

\* an object from the members that are not omitted
Object(members) == <<"{">> \o Join(members) \o <<"}">>

VideoDetailsTokens(d) ==
    LET all == << <<"videoId", Member("\"videoId\"", <<"\"abc12345678\"">>)>>,
                  <<"title", Member("\"title\"", <<"\"T\"">>)>>,
                  <<"shortDescription", Member("\"shortDescription\"", <<"\"D\"">>)>>,
                  <<"author", Member("\"author\"", <<"\"A\"">>)>>,
                  <<"channelId", Member("\"channelId\"", <<"\"UC1\"">>)>>,
                  <<"lengthSeconds", Member("\"lengthSeconds\"", <<"\"42\"">>)>>,
                  <<"viewCount", Member("\"viewCount\"", <<d.views>>)>>,
                  <<"keywords", Member("\"keywords\"", <<"[", "\"k1\"", "]">>)>>,
                  <<"thumbnail", Member("\"thumbnail\"", ThumbTokens(d.thumb))>> >>
        kept == SelectSeq(all, LAMBDA m : m[1] # d.omit)
    IN Object([i \in 1..Len(kept) |-> kept[i][2]])

RendererTokens(d) ==
    LET all == << <<"uploadDate", Member("\"uploadDate\"", <<"\"2020-01-01\"">>)>>,
                  <<"category", Member("\"category\"", <<"\"Music\"">>)>> >>
        kept == SelectSeq(all, LAMBDA m : m[1] # d.omit)
    IN Object([i \in 1..Len(kept) |-> kept[i][2]])

MicroMembers(d) ==
    CASE d.micro = "present" ->
            << Member("\"microformat\"",
                      Object(<< Member("\"playerMicroformatRenderer\"", RendererTokens(d)) >>)) >>
      [] d.micro = "null" -> << Member("\"microformat\"", <<"null">>) >>
      [] d.micro = "absent" -> << >>

PlayerResponseTokens(d) ==
    CASE d.shape = "vd" ->
            Object(<< Member("\"videoDetails\"", VideoDetailsTokens(d)) >> \o MicroMembers(d))
      [] d.shape = "vd_empty" -> Object(<< Member("\"videoDetails\"", EmptyDict) >>)
      [] d.shape = "vd_null" -> Object(<< Member("\"videoDetails\"", <<"null">>) >>)
      [] d.shape = "no_vd" -> Object(<< Member("\"playabilityStatus\"", <<"\"ERROR\"">>) >>)
      [] d.shape = "garbage" -> <<"{", "\"videoDetails\"", "}">>

RenderPage(d) ==
    CASE d.embed = "assign" ->
            <<"<script>", "var", " ", PlayerResponseName, "=">>
                \o PlayerResponseTokens(d) \o <<";", "</script>">>
      [] d.embed = "assign_ws" ->
            <<"<script>", "var", " ", PlayerResponseName, " ", "=", " ">>
                \o PlayerResponseTokens(d) \o <<";", "</script>">>
      [] d.embed = "quoted" ->
            <<"<script>", "{", "\"", PlayerResponseName, "\":", " ">>
                \o PlayerResponseTokens(d) \o <<",", "\"x\"", ":", "0", "}", "</script>">>
      [] d.embed = "none" ->
            <<"<script>", "var", " ", "ytInitialData", "=">>
                \o PlayerResponseTokens(d) \o <<";", "</script>">>

(* Validation inputs: whitespace padding around a core of non-blank characters *)

Pads == SeqsUpTo({" ", "\n"}, MaxPad)

QueryCoreLens == {0, 1, 2, MaxQueryLen - 2, MaxQueryLen - 1, MaxQueryLen, MaxQueryLen + 1}

QueryInputs ==
    {l \o Rep("a", n) \o r : l \in Pads, r \in Pads, n \in QueryCoreLens}
    \cup {<<"a", " ", "b">>, <<"\t">>, <<" ", "a", "\t", "b", " ">>}

\* a core of n allowed characters
IdCore(n) == [i \in 1..n |-> IF i <= Len(ValidVideoId) THEN ValidVideoId[i] ELSE "Z"]

\* the core with position p overwritten by c
Overwrite(s, p, c) == [i \in 1..Len(s) |-> IF i = p THEN c ELSE s[i]]

IdCoreLens == {0, 1, VideoIdLen - 1, VideoIdLen, VideoIdLen + 1}
IdChars == {"_", "-", "Q", "!", " ", "."}

VideoIdInputs ==
    {l \o IdCore(n) \o r : l \in Pads, r \in Pads, n \in IdCoreLens}
    \cup {l \o Overwrite(IdCore(VideoIdLen), p, c) \o r :
             l \in Pads, r \in Pads, p \in {1, 6, VideoIdLen}, c \in IdChars}

(* Search pages: the rows of the results section, in page order *)

SearchRows == {"row_a", "row_b", "row_c"}

SearchDescs ==
    {[form |-> "search", section |-> TRUE, rows |-> r] : r \in SeqsUpTo(SearchRows, MaxRows)}
    \cup {[form |-> "search", section |-> FALSE, rows |-> <<>>]}

RenderSearch(d) ==
    <<"<html>">>
    \o (IF d.section
        THEN <<"videoRenderers", "[">>
             \o Join([i \in 1..Len(d.rows) |-> <<d.rows[i]>>]) \o <<"]">>
        ELSE <<>>)
    \o <<"</html>">>

\* the max_results values search_videos is called with
MaxResultsValues == ((0 - 2)..MaxResultsBound) \cup {DefaultMaxResults}

\* the arguments and bodies the full operations are run on
MainArgs(o) ==
    IF o \in {"auto_complete", "search_videos"} THEN {<<"a", "b">>, <<" ">>}
    ELSE {ValidVideoId, <<"b", "a", "d">>}

MainAutoDescs ==
    {d \in AutoDescs : /\ d.entries \in {<<>>, <<"alpha">>}
                       /\ \/ d.form = "list2" /\ d.entries # <<>>
                          \/ d.form = "null_entry" /\ d.entries = <<>> /\ d.prefix}

MainPageDescs ==
    {d \in PageDescs : /\ d.thumb = "list3" /\ d.micro = "present" /\ d.views = "\"100\""
                       /\ \/ d.embed = "assign" /\ d.shape = "vd"
                                /\ d.omit \in {"none", "keywords"}
                          \/ d.embed = "none" /\ d.shape = "vd" /\ d.omit = "none"}

MainDescs(o) ==
    IF o = "auto_complete" THEN MainAutoDescs
    ELSE IF o = "search_videos" THEN SearchDescs
    ELSE MainPageDescs

\* the response text a description stands for
Render(o, d) ==
    IF o = "auto_complete" THEN RenderAuto(d)
    ELSE IF o = "search_videos" THEN RenderSearch(d)
    ELSE RenderPage(d)

NoDesc == [form |-> "none"]

-----------------------------------------------------------------------------
(* The shared utilities of the async package (utils.py) *)

utils_validate_query(query) == validate_query("async", query)
utils_validate_video_id(video_id) == validate_video_id("async", video_id)

-----------------------------------------------------------------------------
(* The search extraction of the parser (parser._extract_search_results) *)

IsRowToken(t) == t \notin {",", "[", "]"}

\* the rows of the results section in page order, empty without a section
parser_extract_search_results(html_content) ==
    LET start == Find(html_content, "videoRenderers") IN
    IF start = -1 THEN <<>>
    ELSE LET rest == SubSeq(html_content, start + 2, Len(html_content))
             close == Find(rest, "]")
         IN  SelectSeq(SubSeq(rest, 1, close), IsRowToken)

-----------------------------------------------------------------------------
(* AsyncYouTubeAPIWrapper.search_videos after the request *)

\* Python videos[:k]
PrefixSlice(videos, k) ==
    SubSeq(videos, 1, IF k >= 0 THEN Min(k, Len(videos)) ELSE Max(0, Len(videos) + k))

SearchVideosFromPage(html_content, k) ==
    LET videos == parser_extract_search_results(html_content) IN
    IF videos = <<>>
    THEN Return(YouTubeError("NO_RESULTS", NoDetails))
    ELSE Return(ListObj(PrefixSlice(videos, k)))

-----------------------------------------------------------------------------
(* The operations *)

Ops == {"auto_complete", "get_video_info"}

\* the operations that take a query
QueryOps == {"auto_complete", "search_videos"}

\* the validation at the head of an operation
Validate(cl, o, a) ==
    IF o \in QueryOps
    THEN (IF cl = "sync" THEN validate_query(cl, a) ELSE utils_validate_query(a))
    ELSE (IF cl = "sync" THEN validate_video_id(cl, a) ELSE utils_validate_video_id(a))

\* the part of an operation that follows the request
AfterRequest(cl, o, text) ==
    IF o = "auto_complete" THEN ParseAutoComplete(cl, text)
    ELSE IF o = "search_videos" THEN SearchVideosFromPage(text, max_results)
    ELSE VideoInfoFromPage(cl, text)

\* nothing of the extended state is in use
ExtInit ==
    /\ max_results = DefaultMaxResults
    /\ scope = "out"
    /\ entered = "none"
    /\ lifecycle = "none"
    /\ tasks = <<>>
    /\ finalClosed = FALSE

Init ==
    /\ client = "async"
    /\ op = "none"
    /\ max_retries \in 0..MaxRetriesBound
    /\ retry_delay \in 1..MaxDelay
    /\ pc = "idle"
    /\ arg = <<>>
    /\ attempt = 0
    /\ history = <<>>
    /\ waits = <<>>
    /\ response = NoResponse
    /\ last_exception = NoneObj
    /\ outcome = NoOutcome
    /\ mr_outcome = NoOutcome
    /\ desc = NoDesc
    /\ session = 0
    /\ closedSessions = {}
    /\ ExtInit

\* a public operation is called: validation, then the request loop starts
CallOn(cls, ops) ==
    /\ pc = "idle"
    /\ \E cl \in cls, o \in ops :
         \E a \in MainArgs(o) :
            /\ client' = cl
            /\ op' = o
            /\ arg' = a
            /\ IF Validate(cl, o, a).how = "raise"
               THEN /\ outcome' = Handlers(cl, Validate(cl, o, a))
                    /\ pc' = "done"
               ELSE /\ outcome' = NoOutcome
                    /\ pc' = "request"
    /\ attempt' = 0
    /\ history' = <<>>
    /\ waits' = <<>>
    /\ response' = NoResponse
    /\ last_exception' = NoneObj
    /\ mr_outcome' = NoOutcome
    /\ desc' = NoDesc
    /\ UNCHANGED <<max_retries, retry_delay, session, closedSessions>>

Call == CallOn(Clients, Ops) /\ UNCHANGED ext

\* _make_request ends with e raised, which the operation's handlers receive
GiveUp(e) ==
    /\ mr_outcome' = e
    /\ outcome' = Handlers(client, e)
    /\ pc' = "done"

\* an exception e raised in the try block of the loop body: the handler of
\* the loop catches it (and retries or leaves the loop), or it propagates
RaisedInLoop(e) ==
    IF ~CaughtInMakeRequest(client, e.obj)
    THEN GiveUp(e) /\ UNCHANGED last_exception
    ELSE /\ last_exception' = e.obj
         /\ IF CanRetry(attempt, max_retries)
            THEN pc' = "sleep" /\ UNCHANGED <<outcome, mr_outcome>>
            ELSE GiveUp(RequestFailed(client, e.obj))

\* the session an attempt of the async client runs on is created when needed
RunOnSession(kind, st) ==
    /\ session' = IF client = "sync" THEN session ELSE AttemptSession(client)
    /\ history' = Append(history, [kind |-> kind, status |-> st,
                                   session |-> AttemptSession(client)])

\* one attempt on which the transport raises
AttemptTransportError ==
    /\ pc = "request"
    /\ RunOnSession("exception", 0)
    /\ RaisedInLoop(Raise(client, TransportError(client)))
    /\ UNCHANGED <<client, op, max_retries, retry_delay, arg, attempt, waits, response,
                   desc, closedSessions>>
    /\ UNCHANGED ext

\* one attempt that receives a success status
AttemptSuccess ==
    /\ pc = "request"
    /\ \E st \in {x \in Statuses : IsSuccess(client, x)} :
         \E d \in MainDescs(op) :
            /\ RunOnSession("status", st)
            /\ response' = [status |-> st, text |-> Render(op, d)]
            /\ desc' = d
    /\ mr_outcome' = Return(NoneObj)
    /\ pc' = "process"
    /\ UNCHANGED <<client, op, max_retries, retry_delay, arg, attempt, waits,
                   last_exception, outcome, closedSessions>>
    /\ UNCHANGED ext

\* one attempt that receives a status that is no success
AttemptFailure ==
    /\ pc = "request"
    /\ \E st \in {x \in Statuses : ~IsSuccess(client, x)} :
         \E body \in ErrorBodies :
            /\ RunOnSession("status", st)
            /\ response' = [status |-> st, text |-> body]
            /\ IF CanRetry(attempt, max_retries)
               THEN /\ pc' = "sleep"
                    /\ UNCHANGED <<outcome, mr_outcome, last_exception>>
               ELSE RaisedInLoop(HttpError(client, body))
    /\ UNCHANGED <<client, op, max_retries, retry_delay, arg, attempt, waits, desc,
                   closedSessions>>
    /\ UNCHANGED ext

\* the backoff sleep between two attempts
Sleep ==
    /\ pc = "sleep"
    /\ waits' = Append(waits, Backoff(retry_delay, attempt))
    /\ attempt' = attempt + 1
    /\ pc' = "request"
    /\ UNCHANGED <<client, op, max_retries, retry_delay, arg, history, response,
                   last_exception, outcome, mr_outcome, desc, session, closedSessions>>
    /\ UNCHANGED ext

\* the rest of the operation, on the text of the response
Process ==
    /\ pc = "process"
    /\ outcome' = Handlers(client, AfterRequest(client, op, response.text))
    /\ pc' = "done"
    /\ UNCHANGED <<client, op, max_retries, retry_delay, arg, attempt, history, waits,
                   response, last_exception, mr_outcome, desc, session, closedSessions>>
    /\ UNCHANGED ext

\* the current call is over; the client is idle again
FinishCore ==
    /\ pc = "done"
    /\ pc' = "idle"
    /\ op' = "none"
    /\ arg' = <<>>
    /\ attempt' = 0
    /\ history' = <<>>
    /\ waits' = <<>>
    /\ response' = NoResponse
    /\ last_exception' = NoneObj
    /\ outcome' = NoOutcome
    /\ mr_outcome' = NoOutcome
    /\ desc' = NoDesc
    /\ UNCHANGED <<client, max_retries, retry_delay, session>>

\* the caller takes the result
Finish == FinishCore /\ UNCHANGED closedSessions /\ UNCHANGED ext

\* AsyncYouTubeAPIWrapper.aclose between two calls
\* the sessions that are closed once aclose has run
aclose(s, closed) == IF s # 0 /\ s \notin closed THEN closed \cup {s} ELSE closed

Aclose ==
    /\ pc = "idle"
    /\ session < MaxSessions
    /\ closedSessions' = aclose(session, closedSessions)
    /\ UNCHANGED <<client, op, max_retries, retry_delay, pc, arg, attempt, history, waits,
                   response, last_exception, outcome, mr_outcome, desc, session>>
    /\ UNCHANGED ext

Next ==
    \/ Call
    \/ AttemptTransportError
    \/ AttemptSuccess
    \/ AttemptFailure
    \/ Sleep
    \/ Process
    \/ Finish
    \/ Aclose

Spec == Init /\ [][Next]_vars

-----------------------------------------------------------------------------
(* search_videos of the async client, from the call to its result *)

InitSearch == Init /\ max_retries <= 1 /\ retry_delay = 1

CallSearch ==
    /\ CallOn({"async"}, {"search_videos"})
    /\ max_results' \in MaxResultsValues
    /\ UNCHANGED <<scope, entered, lifecycle, tasks, finalClosed>>

NextSearch ==
    \/ CallSearch
    \/ AttemptTransportError
    \/ AttemptSuccess
    \/ AttemptFailure
    \/ Sleep
    \/ Process
    \/ Finish

SpecSearch == InitSearch /\ [][NextSearch]_vars

-----------------------------------------------------------------------------
(* The async client used by one caller, with "async with" and aclose *)

\* __aenter__: what the "as" name of the block is bound to
aenter(self) == self

\* mutant: a block that ends with a failure is left without closing
aexit_normal_only(exc, s, closed) == IF exc = "none" THEN aclose(s, closed) ELSE closed

\* __aexit__: the sessions that are closed once it has run
aexit(exc, s, closed) == aclose(s, closed)

InitScope == Init /\ max_retries <= 1 /\ retry_delay = 1

\* "async with client as name:" is entered
Aenter ==
    /\ pc = "idle"
    /\ scope = "out"
    /\ scope' = "in"
    /\ entered' = aenter("client")
    /\ lifecycle' = "aenter"
    /\ UNCHANGED <<core, session, closedSessions, max_results, tasks, finalClosed>>

\* the caller awaits one operation of the client
CallAsync ==
    /\ CallOn({"async"}, Ops)
    /\ lifecycle' = "call"
    /\ UNCHANGED <<max_results, scope, entered, tasks, finalClosed>>

\* the caller awaits aclose()
AcloseCall ==
    /\ pc = "idle"
    /\ session < MaxSessions
    /\ closedSessions' = aclose(session, closedSessions)
    /\ lifecycle' = "aclose"
    /\ UNCHANGED <<core, session, max_results, scope, entered, tasks, finalClosed>>

\* the block ends normally
AexitNormal ==
    /\ pc = "idle"
    /\ scope = "in"
    /\ session < MaxSessions
    /\ closedSessions' = aexit("none", session, closedSessions)
    /\ scope' = "out"
    /\ entered' = "none"
    /\ lifecycle' = "aexit_normal"
    /\ UNCHANGED <<core, session, max_results, tasks, finalClosed>>

\* an operation raised and the exception leaves the block
AexitFailure ==
    /\ scope = "in"
    /\ outcome.how = "raise"
    /\ session < MaxSessions
    /\ FinishCore
    /\ closedSessions' = aexit("failure", session, closedSessions)
    /\ scope' = "out"
    /\ entered' = "none"
    /\ lifecycle' = "aexit_failure"
    /\ UNCHANGED <<max_results, tasks, finalClosed>>

NextScope ==
    \/ Aenter
    \/ CallAsync
    \/ AttemptTransportError
    \/ AttemptSuccess
    \/ AttemptFailure
    \/ Sleep
    \/ Process
    \/ Finish
    \/ AcloseCall
    \/ AexitNormal
    \/ AexitFailure

SpecScope == InitScope /\ [][NextScope]_vars

-----------------------------------------------------------------------------
(* One async client shared by concurrent tasks.  A task runs one request    *)
(* (_make_request with its retries) or one aclose; an action is what a task *)
(* does between two suspension points: the await of the HTTP exchange, the  *)
(* await of asyncio.sleep and the await of session.close().                 *)

NewTask == [pc |-> "ready", attempt |-> 0, sess |-> 0, wait |-> 0, result |-> "none"]

InitTasks ==
    /\ Init
    /\ max_retries <= MaxTaskRetries
    /\ retry_delay = 1

\* the tasks are created
Spawn ==
    /\ tasks = <<>>
    /\ \E n \in 1..MaxTasks : tasks' = [t \in 1..n |-> NewTask]
    /\ UNCHANGED <<core, session, closedSessions, max_results, scope, entered,
                   lifecycle, finalClosed>>

\* _get_session and the start of session.get run without suspension
BeginAttempt(t, a) ==
    /\ session' = get_session(session, closedSessions)
    /\ tasks' = [tasks EXCEPT ![t] = [pc |-> "inflight", attempt |-> a,
                                      sess |-> get_session(session, closedSessions),
                                      wait |-> 0, result |-> "none"]]
    /\ UNCHANGED closedSessions

\* a task enters _make_request and starts its first attempt
TaskRequest(t) ==
    /\ tasks[t].pc = "ready"
    /\ BeginAttempt(t, 0)
    /\ UNCHANGED <<core, max_results, scope, entered, lifecycle, finalClosed>>

\* the exchange of an attempt ends: the request returns, or the attempt
\* failed and the task sleeps, or the last attempt failed and it raises
TaskResponse(t) ==
    /\ tasks[t].pc = "inflight"
    /\ \E success \in BOOLEAN :
         tasks' = [tasks EXCEPT ![t] =
            IF success
            THEN [@ EXCEPT !.pc = "finished", !.result = "returned"]
            ELSE IF CanRetry(tasks[t].attempt, max_retries)
            THEN [@ EXCEPT !.pc = "sleep", !.wait = Backoff(retry_delay, tasks[t].attempt)]
            ELSE [@ EXCEPT !.pc = "finished", !.result = "raised"]]
    /\ UNCHANGED <<core, session, closedSessions, max_results, scope, entered,
                   lifecycle, finalClosed>>

\* the sleep is over: the loop goes on to the next attempt
TaskWake(t) ==
    /\ tasks[t].pc = "sleep"
    /\ BeginAttempt(t, tasks[t].attempt + 1)
    /\ UNCHANGED <<core, max_results, scope, entered, lifecycle, finalClosed>>

\* a task calls aclose: nothing to close, or session.close() is awaited;
\* the session reports closed from the start of the close or from its end
TaskClose(t) ==
    /\ tasks[t].pc = "ready"
    /\ IF aclose(session, closedSessions) = closedSessions
       THEN /\ tasks' = [tasks EXCEPT ![t] = [@ EXCEPT !.pc = "finished", !.result = "returned"]]
            /\ UNCHANGED closedSessions
       ELSE /\ tasks' = [tasks EXCEPT ![t] = [@ EXCEPT !.pc = "closing", !.sess = session]]
            /\ \E atStart \in BOOLEAN :
                 closedSessions' = IF atStart THEN aclose(session, closedSessions)
                                   ELSE closedSessions
    /\ UNCHANGED <<core, session, max_results, scope, entered, lifecycle, finalClosed>>

\* session.close() is over
TaskCloseDone(t) ==
    /\ tasks[t].pc = "closing"
    /\ closedSessions' = closedSessions \cup {tasks[t].sess}
    /\ tasks' = [tasks EXCEPT ![t] = [@ EXCEPT !.pc = "finished", !.result = "returned"]]
    /\ UNCHANGED <<core, session, max_results, scope, entered, lifecycle, finalClosed>>

AllFinished == tasks # <<>> /\ \A t \in DOMAIN tasks : tasks[t].pc = "finished"

\* every task is over and the owner of the client awaits aclose
FinalClose ==
    /\ AllFinished
    /\ ~finalClosed
    /\ closedSessions' = aclose(session, closedSessions)
    /\ finalClosed' = TRUE
    /\ UNCHANGED <<core, session, max_results, scope, entered, lifecycle, tasks>>

NextTasks ==
    \/ Spawn
    \/ \E t \in DOMAIN tasks : TaskRequest(t)
    \/ \E t \in DOMAIN tasks : TaskResponse(t)
    \/ \E t \in DOMAIN tasks : TaskWake(t)
    \/ \E t \in DOMAIN tasks : TaskClose(t)
    \/ \E t \in DOMAIN tasks : TaskCloseDone(t)
    \/ FinalClose

SpecTasks == InitTasks /\ [][NextTasks]_vars

-----------------------------------------------------------------------------
(* The pure parts run on their own on wider inputs *)

InitPure ==
    /\ client \in Clients
    /\ max_retries = 0
    /\ retry_delay = 1
    /\ attempt = 0
    /\ history = <<>>
    /\ waits = <<>>
    /\ last_exception = NoneObj
    /\ outcome = NoOutcome
    /\ session = 0
    /\ closedSessions = {}
    /\ ExtInit
    /\ \/ /\ op = "validate_query"
          /\ arg \in QueryInputs
          /\ pc = "validate"
          /\ response = NoResponse
          /\ mr_outcome = NoOutcome
          /\ desc = NoDesc
       \/ /\ op = "validate_video_id"
          /\ arg \in VideoIdInputs
          /\ pc = "validate"
          /\ response = NoResponse
          /\ mr_outcome = NoOutcome
          /\ desc = NoDesc
       \/ /\ op = "auto_complete"
          /\ arg = <<"a", "b">>
          /\ pc = "process"
          /\ desc \in AutoDescs
          /\ response = [status |-> StatusOK, text |-> Render(op, desc)]
          /\ mr_outcome = Return(NoneObj)
       \/ /\ op = "get_video_info"
          /\ arg = ValidVideoId
          /\ pc = "process"
          /\ desc \in PageDescs
          /\ response = [status |-> StatusOK, text |-> Render(op, desc)]
          /\ mr_outcome = Return(NoneObj)

ValidateQuery ==
    /\ pc = "validate" /\ op = "validate_query"
    /\ outcome' = Validate(client, "auto_complete", arg)
    /\ pc' = "done"
    /\ UNCHANGED <<client, op, max_retries, retry_delay, arg, attempt, history, waits,
                   response, last_exception, mr_outcome, desc, session, closedSessions>>
    /\ UNCHANGED ext

ValidateVideoId ==
    /\ pc = "validate" /\ op = "validate_video_id"
    /\ outcome' = Validate(client, "get_video_info", arg)
    /\ pc' = "done"
    /\ UNCHANGED <<client, op, max_retries, retry_delay, arg, attempt, history, waits,
                   response, last_exception, mr_outcome, desc, session, closedSessions>>
    /\ UNCHANGED ext

NextPure == ValidateQuery \/ ValidateVideoId \/ Process

SpecPure == InitPure /\ [][NextPure]_vars

-----------------------------------------------------------------------------
(* Vocabulary of the properties *)

IsRaisedError(o, et) ==
    o.how = "raise" /\ o.obj.type = "YouTubeError" /\ o.obj.error_type = et

IsReturnedError(o, et) ==
    o.how = "return" /\ o.obj.type = "YouTubeError" /\ o.obj.error_type = et

IsRecord(o) == o.how = "return" /\ o.obj.type \in {"dict", "YouTubeVideoBuilder"}

LastAttempt == history[Len(history)]

AllTransportErrors ==
    history # <<>> /\ \A i \in 1..Len(history) : history[i].kind = "exception"

\* an attempt the claims call failed: a transport exception or a status the
\* client does not accept (async: anything but 200; sync: 4xx and 5xx)
FailedAttempt(h) ==
    \/ h.kind = "exception"
    \/ h.kind = "status" /\ client = "async" /\ h.status # 200
    \/ h.kind = "status" /\ client = "sync" /\ h.status >= 400

-----------------------------------------------------------------------------
(* C1: In the async client's _make_request, a transport that fails on every *)
(* attempt causes exactly max_retries + 1 attempts: never more, the call    *)
(* does not end before, and it then raises a structured error of kind       *)
(* REQUEST_FAILED.                                                          *)
C1_RetryExhaustion ==
    (client = "async" /\ AllTransportErrors) =>
        /\ Len(history) <= max_retries + 1
        /\ (pc = "done") <=> (Len(history) = max_retries + 1)
        /\ pc = "done" => IsRaisedError(mr_outcome, "REQUEST_FAILED")

C1_Witness ==
    /\ client = "async" /\ AllTransportErrors /\ pc = "done"
    /\ max_retries = 2 /\ Len(history) = 3
    /\ IsRaisedError(mr_outcome, "REQUEST_FAILED")

(* C2: In both clients' _make_request, the k-th wait (k from 0) lasts       *)
(* retry_delay * 2^k and follows failed attempt k; there is one wait per    *)
(* failed non-final attempt, none after attempt max_retries and none after  *)
(* a successful attempt.                                                    *)
C2_BackoffSchedule ==
    /\ \A k \in 1..Len(waits) :
          /\ waits[k] = retry_delay * (2 ^ (k - 1))
          /\ k <= Len(history) /\ FailedAttempt(history[k])
    /\ Len(waits) <= max_retries
    /\ pc = "request" => Len(history) = Len(waits)
    /\ pc = "sleep" => /\ Len(history) = Len(waits) + 1
                       /\ FailedAttempt(LastAttempt)
                       /\ Len(history) <= max_retries
    /\ (pc \in {"process", "done"} /\ history # <<>>) => Len(history) = Len(waits) + 1

C2_Witness ==
    /\ client = "sync" /\ pc = "done" /\ retry_delay = 2 /\ max_retries = 3
    /\ waits = <<2, 4, 8>>
    /\ Len(history) = 4
    /\ history[1].kind = "exception" /\ history[2].kind = "status"

(* C3: In the async client's _make_request, a non-success status on the     *)
(* final attempt makes the call fail with kind HTTP_ERROR carrying at most  *)
(* the first 200 characters of that response body.                          *)
C3_FinalStatusIsHttpError ==
    (/\ client = "async" /\ pc = "done" /\ history # <<>>
     /\ Len(history) = max_retries + 1
     /\ LastAttempt.kind = "status" /\ LastAttempt.status # 200)
    => /\ IsRaisedError(mr_outcome, "HTTP_ERROR")
       /\ mr_outcome.obj.details = Take(response.text, 200)

(* C4: In the sync client's auto_complete and get_video_info no exception   *)
(* other than a structured error escapes; a validation failure reaches the  *)
(* caller as INVALID_INPUT and retry exhaustion as HTTP_ERROR or            *)
(* REQUEST_FAILED.                                                          *)
C4_SyncErrorsStayStructured ==
    (client = "sync" /\ pc = "done" /\ op \in Ops) =>
        /\ outcome.how = "raise" => outcome.obj.type = "YouTubeError"
        /\ (history = <<>>) => IsRaisedError(outcome, "INVALID_INPUT")
        /\ (history # <<>> /\ LastAttempt.kind = "exception")
              => IsRaisedError(outcome, "REQUEST_FAILED")
        /\ (history # <<>> /\ LastAttempt.kind = "status" /\ LastAttempt.status >= 400)
              => IsRaisedError(outcome, "HTTP_ERROR")

(* C5: The async client counts an attempt as successful only on status 200: *)
(* any other status, 204 included, is a failed attempt that is retried (or  *)
(* ends the call in an error when it was the final attempt); the sync       *)
(* client returns on any 2xx status at once.                                *)
C5_SuccessStatus ==
    (history # <<>> /\ pc # "request" /\ LastAttempt.kind = "status") =>
        /\ (client = "async" /\ LastAttempt.status # 200) =>
              /\ Len(history) <= max_retries => pc = "sleep"
              /\ Len(history) > max_retries => (pc = "done" /\ mr_outcome.how = "raise")
        /\ (client = "async" /\ LastAttempt.status = 200) =>
              (pc \in {"process", "done"} /\ mr_outcome.how = "return")
        /\ (client = "sync" /\ LastAttempt.status \in 200..299) =>
              (pc \in {"process", "done"} /\ mr_outcome.how = "return")

C5_Witness ==
    /\ client = "async" /\ pc = "sleep" /\ history # <<>>
    /\ LastAttempt.kind = "status" /\ LastAttempt.status = 204

-----------------------------------------------------------------------------
(* Properties of the pure parts *)

HasBadIdChar(s) == \E i \in 1..Len(s) : s[i] \notin VideoIdChars
AllWhitespace(s) == \A i \in 1..Len(s) : s[i] \in Whitespace

(* C6: Video-ID validation fails with INVALID_INPUT for every string whose  *)
(* length is not 11 or that holds a character outside [A-Za-z0-9_-], and    *)
(* passes for every string of exactly 11 allowed characters.                *)
C6_VideoIdValidation ==
    (pc = "done" /\ op = "validate_video_id" /\ client = "sync") =>
        IF Len(arg) # 11 \/ HasBadIdChar(arg)
        THEN IsRaisedError(outcome, "INVALID_INPUT")
        ELSE outcome = Return(NoneObj)

(* C7: Query validation fails with INVALID_INPUT for the empty string, for  *)
(* every all-whitespace string and for every query longer than 200          *)
(* characters as given; every other query passes.                           *)
C7_QueryValidation ==
    (pc = "done" /\ op = "validate_query" /\ client = "sync") =>
        IF AllWhitespace(arg) \/ Len(arg) > 200
        THEN IsRaisedError(outcome, "INVALID_INPUT")
        ELSE outcome = Return(NoneObj)

\* the payload forms whose span from the first [ to the last ] parses
SpanParses(d) == d.form \notin {"null_entry", "unbalanced", "no_bracket"}

\* the forms with fewer than 2 elements or a second element that is no list
NoListForms == {"short", "empty", "second_str", "second_tuple"}

\* the first element of each kind of entry that is a non-empty list
FirstOfEntry(k) ==
    CASE k = "alpha" -> <<"\"alpha\"">>
      [] k = "beta" -> <<"\"beta\"">>
      [] k = "nested" -> <<"[", "\"x\"", "]">>

RECURSIVE ExpectedSuggestions(_)
ExpectedSuggestions(es) ==
    IF es = <<>> THEN <<>>
    ELSE IF Head(es) \in {"alpha", "beta", "nested"}
    THEN <<FirstOfEntry(Head(es))>> \o ExpectedSuggestions(Tail(es))
    ELSE ExpectedSuggestions(Tail(es))

(* C8: In both clients' auto_complete, when the text has the prefix and the *)
(* span from the first [ to the last ] parses: the result is the empty list *)
(* if the parsed structure has fewer than 2 elements or its second element  *)
(* is not a list, and otherwise the first element of each list-typed,       *)
(* non-empty entry of the second element, in order, all other entries       *)
(* skipped.                                                                 *)
C8_Suggestions ==
    (pc = "done" /\ op = "auto_complete" /\ desc.prefix /\ SpanParses(desc)) =>
        /\ outcome.how = "return" /\ outcome.obj.type = "list"
        /\ outcome.obj.value = IF desc.form \in NoListForms THEN <<>>
                               ELSE ExpectedSuggestions(desc.entries)

C8_Witness ==
    /\ pc = "done" /\ op = "auto_complete" /\ client = "sync"
    /\ desc.prefix /\ desc.form = "list2"
    /\ desc.entries = <<"alpha", "tuple", "beta">>
    /\ outcome.how = "return" /\ outcome.obj.type = "list"
    /\ outcome.obj.value = << <<"\"alpha\"">>, <<"\"beta\"">> >>

\* the quoted embedding ends the captured text at the first "}," of the
\* player response, which leaves an undecodable fragment
CutShort(b) == \E j \in 3..(Len(b) - 1) : b[j] = "}" /\ b[j + 1] = ","

Decodable(d) ==
    /\ d.shape # "garbage"
    /\ d.embed = "quoted" => ~CutShort(PlayerResponseTokens(d))

(* C9: In both clients' get_video_info, after a successful fetch: a page    *)
(* without player-response text gives PARSE_ERROR, an extracted text that   *)
(* is not decodable JSON gives PARSE_ERROR, a decoded structure without     *)
(* videoDetails gives VIDEO_NOT_FOUND, each returned as a value; a record   *)
(* is produced only when none of these apply.                               *)
C9_Classification ==
    (pc = "done" /\ op = "get_video_info") =>
        /\ desc.embed = "none" => IsReturnedError(outcome, "PARSE_ERROR")
        /\ (desc.embed # "none" /\ ~Decodable(desc)) => IsReturnedError(outcome, "PARSE_ERROR")
        /\ (desc.embed # "none" /\ Decodable(desc) /\ desc.shape = "no_vd")
              => IsReturnedError(outcome, "VIDEO_NOT_FOUND")
        /\ IsRecord(outcome) => (desc.embed # "none" /\ Decodable(desc) /\ desc.shape = "vd")

C9_Witness ==
    /\ pc = "done" /\ op = "get_video_info" /\ client = "async"
    /\ desc.embed = "quoted" /\ desc.shape = "no_vd"
    /\ IsReturnedError(outcome, "VIDEO_NOT_FOUND")

(* C10: In the sync client's get_video_info, whenever the decoded player    *)
(* response contains videoDetails the operation returns the typed record,   *)
(* also when some source fields are absent.                                 *)
C10_RecordWhenVideoDetails ==
    (/\ pc = "done" /\ op = "get_video_info" /\ client = "sync"
     /\ desc.embed # "none" /\ Decodable(desc) /\ desc.shape = "vd")
    => (outcome.how = "return" /\ outcome.obj.type = "YouTubeVideoBuilder")

-----------------------------------------------------------------------------
(* search_videos *)

\* the rows the page of a description carries
RowsOnPage(d) == IF d.section THEN d.rows ELSE <<>>

SearchResultReached ==
    /\ op = "search_videos" /\ pc = "done" /\ mr_outcome = Return(NoneObj)

\* C11: when rows are extracted, search_videos returns, for every
\* max_results, the first min(max_results, number of rows) rows in extraction
\* order and never more than max_results of them; when no row is extracted
\* it returns a NO_RESULTS error as a value.
C11_SearchTruncation ==
    SearchResultReached =>
        LET rows == RowsOnPage(desc) IN
        IF rows # <<>>
        THEN /\ outcome.how = "return"
             /\ outcome.obj.type = "list"
             /\ Len(outcome.obj.value) = Min(max_results, Len(rows))
             /\ Len(outcome.obj.value) <= max_results
             /\ outcome.obj.value = SubSeq(rows, 1, Len(outcome.obj.value))
        ELSE IsReturnedError(outcome, "NO_RESULTS")

-----------------------------------------------------------------------------
(* The session of the async client *)

SessionOpen == session # 0 /\ session \notin closedSessions

\* a step in which the async client makes one request attempt
IsAsyncAttempt == client = "async" /\ Len(history') = Len(history) + 1

SessionStep ==
    /\ IsAsyncAttempt =>
          /\ session' # 0
          /\ session' \notin closedSessions'
          /\ history'[Len(history')].session = session'
          /\ SessionOpen => session' = session
          /\ ~SessionOpen => session' > session
    /\ ~IsAsyncAttempt => session' = session

\* C12: the async client has no session when constructed; a request attempt
\* creates one when there is none or the held one is closed, and reuses the
\* held one while it is open, so that every attempt runs on an open session;
\* nothing but a request attempt changes the session held.
C12_SessionLifecycle == (session = 0) /\ [][SessionStep]_vars

\* a call after a close ran two attempts on the same, new session
C12_Witness ==
    /\ client = "async"
    /\ Len(history) >= 2
    /\ history[1].session = 2 /\ history[2].session = 2
    /\ session = 2
    /\ closedSessions = {1}

-----------------------------------------------------------------------------
(* Closing the session *)

CloseEvents == {"aclose", "aexit_normal", "aexit_failure"}
ExitEvents == {"aexit_normal", "aexit_failure"}

\* right after a close or an exit no session is open, and inside the block
\* the name is bound to the client
ScopeInv ==
    /\ lifecycle \in CloseEvents => ~SessionOpen
    /\ scope = "in" => entered = "client"

\* a close or an exit closes the held session when it is open and changes
\* nothing otherwise; leaving the block is always an exit that closed
ScopeStep ==
    /\ lifecycle' \in CloseEvents =>
          /\ session' = session
          /\ closedSessions' = IF SessionOpen THEN closedSessions \cup {session}
                                ELSE closedSessions
    /\ (scope = "in" /\ scope' = "out") =>
          /\ lifecycle' \in ExitEvents
          /\ ~(session' # 0 /\ session' \notin closedSessions')

\* C13: aclose closes the session exactly when one exists and is open and is
\* a no-op otherwise; entering the block yields the client itself; leaving
\* the block, normally or with a failure, runs the close, so that no session
\* is open when the exit completes.
C13_CloseAndScope == [](ScopeInv) /\ [][ScopeStep]_vars

\* a block left through a raised error closed the session it had created
C13_Witness ==
    /\ lifecycle = "aexit_failure"
    /\ scope = "out"
    /\ session = 1
    /\ closedSessions = {1}

-----------------------------------------------------------------------------
(* Concurrent tasks on one client *)

\* the sessions the client has created and that are not closed
OpenSessions == {s \in 1..session : s \notin closedSessions}

TasksInv ==
    /\ Cardinality(OpenSessions) <= 1
    /\ finalClosed => OpenSessions = {}

TasksStep == session' # session => ~SessionOpen

\* C14: with tasks interleaving requests, backoff waits and closes on one
\* client, at most one session created by the client is open at any time, the
\* held session is only replaced once it is closed, and after all tasks are
\* over and the final close is done no session of the client is open.
C14_OneOpenSession == [](TasksInv) /\ [][TasksStep]_vars

\* a request was in flight on a session another task closed, retried on a
\* new session, and the final close left nothing open
C14_Witness ==
    /\ finalClosed
    /\ session >= 2
    /\ closedSessions = 1..session
    /\ \E t \in DOMAIN tasks : tasks[t].attempt >= 1 /\ tasks[t].sess = session

====
